---- MODULE Spec2Model ----
(***************************************************************************)
(* Model of crud/MatchResult.py: the data-access operations over the       *)
(* MatchResult table and the recompute operation get_all_match_results,    *)
(* which is broken at its commits into steps so that concurrent requests   *)
(* interleave exactly where the database makes their writes visible.       *)
(***************************************************************************)
EXTENDS Integers, Sequences, FiniteSets, TLC

\* ---------------------------------------------------------------- bounds
MaxJob == 2            \* job description ids that requests name: 1..MaxJob
MaxConsultant == 2     \* consultant ids: 1..MaxConsultant
MaxMatches == 2        \* longest all_matches list the matching function returns
MaxRequests == 2       \* recompute calls served (possibly overlapping) in one behaviour
MaxRank == 2           \* ranks a caller-supplied payload may carry: 1..MaxRank
MaxScore == 1          \* similarity scores: 1..MaxScore
MaxTopN == 2           \* top_n arguments: 0..MaxTopN
MaxCrudOps == 1        \* create/update/delete calls in one behaviour

HTTP_404_NOT_FOUND == 404
HTTP_500_INTERNAL_SERVER_ERROR == 500

JobIds == 1..MaxJob
ConsultantIds == 1..MaxConsultant
Ranks == 1..MaxRank
Scores == 1..MaxScore
Requests == 1..MaxRequests

\* what a caller supplies to create/update: the fields of MatchResultSchema
MatchResultSchema ==
    [job_description_id : JobIds, consultant_id : ConsultantIds,
     rank : Ranks, similarity_score : Scores]

RECURSIVE SeqsUpTo(_, _)
SeqsUpTo(S, n) ==
    IF n = 0 THEN {<< >>}
    ELSE LET shorter == SeqsUpTo(S, n - 1)
         IN  shorter \cup {Append(s, x) : s \in {t \in shorter : Len(t) = n - 1}, x \in S}

VARIABLES
    jobDescriptions,   \* JobDescription table: the ids that exist
    consultantProfiles,\* ConsultantProfile table: id -> availability
    matches,           \* MatchResult table: set of rows
    nextMatchId,       \* next autoincrement id of MatchResult
    workflows,         \* WorkflowStatus table: sequence, index = id
    notifications,     \* Notification table: sequence, index = id
    run,               \* per request: the position inside get_all_match_results
    crudOps,           \* number of create/update/delete calls made
    response           \* what the last CRUD call returned or raised

vars == <<jobDescriptions, consultantProfiles, matches, nextMatchId, workflows,
          notifications, run, crudOps, response>>

tables == <<jobDescriptions, consultantProfiles>>

\* ------------------------------------------------------------ the tables
JobTables == {S \in SUBSET JobIds : 1 \in S}
\* every consultant exists and is available
FullProfiles == [c \in ConsultantIds |-> "available"]
\* consultant 1 exists and is unavailable, the other ids have no row
SparseProfiles == [c \in ConsultantIds |-> IF c = 1 THEN "unavailable" ELSE "absent"]
ProfileTables == {FullProfiles, SparseProfiles}

\* db.query(ConsultantProfile).filter(availability != unavailable).all()
AvailableProfiles == {c \in ConsultantIds : consultantProfiles[c] = "available"}

\* MatchResult(...) row as the table stores it
Row(id, data) ==
    [id |-> id, job_description_id |-> data.job_description_id,
     consultant_id |-> data.consultant_id, rank |-> data.rank,
     similarity_score |-> data.similarity_score]

RowsOfJob(rows, job) == {r \in rows : r.job_description_id = job}

\* -------------------------------------------------- get_all_match_results
\* pc .. returned are the call's locals and outcome; the rest is history kept
\* for stating properties: undisturbed (no other call has written since this
\* one began), racedWith (a call for the same job that had deleted but not
\* yet inserted when this one inserted), and the tables as the call found them
IdleRun ==
    [pc |-> "idle", job |-> 0, jd |-> FALSE, all_matches |-> << >>,
     created |-> 0, marked |-> 0, email |-> "unset", raised |-> "none",
     status_code |-> 0, returned |-> << >>,
     undisturbed |-> TRUE, racedWith |-> 0,
     pre |-> {}, preNotifications |-> << >>, preWorkflows |-> << >>]

\* history: a writing step of request p happened during or after every other
\* call that has begun
Disturb(r, p) ==
    [q \in Requests |->
        IF q # p /\ r[q].pc # "idle" THEN [r[q] EXCEPT !.undisturbed = FALSE]
        ELSE r[q]]

HTTPException(code) == [type |-> "HTTPException", status_code |-> code]
AttributeError == [type |-> "AttributeError", status_code |-> 0]

\* the outermost handler, lines 95-100: every Exception becomes a 500
RecomputeHandler(exc) == HTTP_500_INTERNAL_SERVER_ERROR

\* the handlers of the other operations: an HTTPException is re-raised as it
\* is, anything else becomes a 500
CrudHandler(exc) ==
    IF exc.type = "HTTPException" THEN exc.status_code
    ELSE HTTP_500_INTERNAL_SERVER_ERROR

\* lines 20-31: read the job and the pool, add a PROCESSING WorkflowStatus, commit
get_all_match_results_begin(p, jobDescription_id) ==
    /\ run[p].pc = "idle"
    /\ workflows' = Append(workflows,
            [job_description_id |-> jobDescription_id, progress |-> "PROCESSING"])
    /\ run' = Disturb([run EXCEPT ![p] =
            [IdleRun EXCEPT !.pc = "matching", !.job = jobDescription_id,
                            !.jd = jobDescription_id \in jobDescriptions,
                            !.created = Len(workflows) + 1,
                            !.undisturbed = \A q \in Requests : run[q].pc \in {"idle", "done"},
                            !.pre = matches,
                            !.preNotifications = notifications,
                            !.preWorkflows = workflows]], p)
    /\ UNCHANGED <<tables, matches, nextMatchId, notifications, crudOps, response>>

\* what run_agent_matching may hand back besides None: a result whose
\* all_matches ranks distinct consultants of the pool it was given
MatchingResults ==
    {s \in SeqsUpTo([profile : AvailableProfiles, similarity_score : Scores], MaxMatches) :
        \A i, j \in 1..Len(s) : i # j => s[i].profile # s[j].profile}

\* faulty variant of get_all_match_results_no_result: the WorkflowStatus is marked
\* COMPLETED before the result is looked at
no_result_after_completing(p) ==
    /\ run[p].pc = "matching"
    /\ workflows' = [workflows EXCEPT ![run[p].created].progress = "COMPLETED"]
    /\ run' = [run EXCEPT ![p].pc = "done",
                          ![p].raised = "NotFound",
                          ![p].status_code = HTTP_500_INTERNAL_SERVER_ERROR]
    /\ UNCHANGED <<tables, matches, nextMatchId, notifications, crudOps, response>>

\* faulty variant of get_all_match_results_no_result: the job's rows are deleted
\* before the result is looked at
no_result_after_deleting(p) ==
    /\ run[p].pc = "matching"
    /\ matches' = matches \ RowsOfJob(matches, run[p].job)
    /\ run' = [run EXCEPT ![p].pc = "done",
                          ![p].raised = "NotFound",
                          ![p].status_code = HTTP_500_INTERNAL_SERVER_ERROR]
    /\ UNCHANGED <<tables, nextMatchId, workflows, notifications, crudOps, response>>

\* lines 33-39: no result raises the 404, which the outermost handler receives
get_all_match_results_no_result(p) ==
    /\ run[p].pc = "matching"
    /\ run' = [run EXCEPT ![p].pc = "done",
                          ![p].raised = "NotFound",
                          ![p].status_code = RecomputeHandler(HTTPException(HTTP_404_NOT_FOUND))]
    /\ UNCHANGED <<tables, matches, nextMatchId, workflows, notifications, crudOps, response>>

\* line 45: .first() of the WorkflowStatus rows of the job, in no stated order
FirstWorkflowOfJob(job) ==
    {w \in 1..Len(workflows) : workflows[w].job_description_id = job}

\* lines 33-48: the matching function returns a result; send the email (a
\* failure is logged and dropped; with no job row jd.requestor_email itself
\* fails), then mark the fetched WorkflowStatus COMPLETED and commit
get_all_match_results_complete(p) ==
    /\ run[p].pc = "matching"
    /\ \E all_matches \in MatchingResults,
          sent \in IF run[p].jd THEN {"sent", "failed"} ELSE {"failed"},
          w \in FirstWorkflowOfJob(run[p].job) :
          /\ workflows' = [workflows EXCEPT ![w].progress = "COMPLETED"]
          /\ run' = Disturb([run EXCEPT ![p].pc = "delete", ![p].email = sent,
                                        ![p].all_matches = all_matches,
                                        ![p].marked = w], p)
    /\ UNCHANGED <<tables, matches, nextMatchId, notifications, crudOps, response>>

\* lines 54-55: delete the job's rows, commit
get_all_match_results_delete(p) ==
    /\ run[p].pc = "delete"
    /\ matches' = matches \ RowsOfJob(matches, run[p].job)
    /\ run' = Disturb([run EXCEPT ![p].pc = "insert"], p)
    /\ UNCHANGED <<tables, nextMatchId, workflows, notifications, crudOps, response>>

\* faulty variant of NewRows: rank = idx, the 0-based position
NewRowsZeroBased(job, all_matches, firstId) ==
    {[id |-> firstId + idx - 1, job_description_id |-> job,
      consultant_id |-> all_matches[idx].profile, rank |-> idx - 1,
      similarity_score |-> all_matches[idx].similarity_score] :
        idx \in 1..Len(all_matches)}

\* lines 57-65: the rows built from enumerate(all_matches)
NewRows(job, all_matches, firstId) ==
    {[id |-> firstId + idx - 1, job_description_id |-> job,
      consultant_id |-> all_matches[idx].profile, rank |-> idx,
      similarity_score |-> all_matches[idx].similarity_score] :
        idx \in 1..Len(all_matches)}

\* history: another call for the same job that sits between its delete and its insert
Racing(p) ==
    IF \E q \in Requests \ {p} : run[q].pc = "insert" /\ run[q].job = run[p].job
    THEN CHOOSE q \in Requests \ {p} : run[q].pc = "insert" /\ run[q].job = run[p].job
    ELSE 0

\* faulty variant of get_all_match_results_insert: the delete and the insert share
\* one commit
insert_replacing(p) ==
    /\ run[p].pc = "insert"
    /\ matches' = (matches \ RowsOfJob(matches, run[p].job))
                        \cup NewRows(run[p].job, run[p].all_matches, nextMatchId)
    /\ nextMatchId' = nextMatchId + Len(run[p].all_matches)
    /\ run' = Disturb([run EXCEPT ![p].pc = "notify",
                                  ![p].racedWith = Racing(p)], p)
    /\ UNCHANGED <<tables, workflows, notifications, crudOps, response>>

\* lines 57-66: insert the fresh rows, commit
get_all_match_results_insert(p) ==
    /\ run[p].pc = "insert"
    /\ matches' = matches \cup NewRows(run[p].job, run[p].all_matches, nextMatchId)
    /\ nextMatchId' = nextMatchId + Len(run[p].all_matches)
    /\ run' = Disturb([run EXCEPT ![p].pc = "notify",
                                  ![p].racedWith = Racing(p)], p)
    /\ UNCHANGED <<tables, workflows, notifications, crudOps, response>>

\* lines 67-81: the list the call returns
SerializedMatches(all_matches) ==
    [idx \in 1..Len(all_matches) |->
        [profile |-> all_matches[idx].profile,
         similarity_score |-> all_matches[idx].similarity_score,
         rank |-> idx]]

\* lines 82-93: build the Notification (jd.requestor_email fails when there
\* is no job row), commit and return
get_all_match_results_notify(p) ==
    /\ run[p].pc = "notify"
    /\ IF run[p].jd
       THEN /\ notifications' = Append(notifications,
                    [job_description_id |-> run[p].job,
                     workflow_status_id |-> run[p].marked, status |-> "sent"])
            /\ run' = Disturb([run EXCEPT ![p].pc = "done",
                          ![p].returned = SerializedMatches(run[p].all_matches)], p)
       ELSE /\ notifications' = notifications
            /\ run' = [run EXCEPT ![p].pc = "done", ![p].raised = "AttributeError",
                          ![p].status_code = RecomputeHandler(AttributeError)]
    /\ UNCHANGED <<tables, matches, nextMatchId, workflows, crudOps, response>>

get_all_match_results(p) ==
    \/ \E jobDescription_id \in JobIds : get_all_match_results_begin(p, jobDescription_id)
    \/ get_all_match_results_no_result(p)
    \/ get_all_match_results_complete(p)
    \/ get_all_match_results_delete(p)
    \/ get_all_match_results_insert(p)
    \/ get_all_match_results_notify(p)

\* ------------------------------------------------------- the CRUD calls
NoResponse == [op |-> "none", arg |-> 0, top_n |-> 0, status_code |-> 0, body |-> << >>]

Returned(op, arg, n, body) ==
    [op |-> op, arg |-> arg, top_n |-> n, status_code |-> 0, body |-> body]
Raised(op, arg, n, code) ==
    [op |-> op, arg |-> arg, top_n |-> n, status_code |-> code, body |-> << >>]

\* MatchResultSchema.model_validate(row): the schema's fields of the row
model_validate(row) ==
    [job_description_id |-> row.job_description_id, consultant_id |-> row.consultant_id,
     rank |-> row.rank, similarity_score |-> row.similarity_score]

\* .all() of a query: the rows in one of the orders the database may give
RECURSIVE AnyOrder(_)
AnyOrder(rows) ==
    IF rows = {} THEN {<< >>}
    ELSE UNION {{<<r>> \o t : t \in AnyOrder(rows \ {r})} : r \in rows}

\* faulty variant of OrderByRankAsc: descending rank
RECURSIVE OrderByRankDesc(_)
OrderByRankDesc(rows) ==
    IF rows = {} THEN {<< >>}
    ELSE UNION {{<<r>> \o t : t \in OrderByRankDesc(rows \ {r})} :
                    r \in {x \in rows : \A y \in rows : x.rank >= y.rank}}

\* .order_by(MatchResult.rank.asc()): ascending rank, ties in any order
RECURSIVE OrderByRankAsc(_)
OrderByRankAsc(rows) ==
    IF rows = {} THEN {<< >>}
    ELSE UNION {{<<r>> \o t : t \in OrderByRankAsc(rows \ {r})} :
                    r \in {x \in rows : \A y \in rows : x.rank <= y.rank}}

\* .limit(n)
Limit(s, n) == SubSeq(s, 1, IF n < Len(s) THEN n ELSE Len(s))

\* .filter(MatchResult.id == id).first()
FirstById(id) == {r \in matches : r.id = id}

\* lines 120-138 and 139-144: the entry get_top_3_matches builds for one row
SerializeWithProfile(row) ==
    [profile |-> IF consultantProfiles[row.consultant_id] # "absent"
                 THEN [id |-> row.consultant_id,
                       availability |-> consultantProfiles[row.consultant_id]]
                 ELSE [id |-> 0, availability |-> "None"],
     similarity_score |-> row.similarity_score, rank |-> row.rank]

\* line 113: .limit(3)
TopThree == 3

\* lines 107-146: what get_top_3_matches may hand back
Top3Responses(jd_id) ==
    {Returned("get_top_3_matches", jd_id, TopThree,
              [i \in 1..Len(Limit(s, TopThree)) |-> SerializeWithProfile(s[i])]) :
        s \in OrderByRankAsc(RowsOfJob(matches, jd_id))}

get_top_3_matches(jd_id) ==
    /\ response' \in Top3Responses(jd_id)
    /\ UNCHANGED <<tables, matches, nextMatchId, workflows, notifications, run, crudOps>>

\* lines 270-284
TopNResponses(job_description_id, top_n) ==
    {IF Limit(s, top_n) = << >>
     THEN Raised("get_top_match_results", job_description_id, top_n,
                 CrudHandler(HTTPException(HTTP_404_NOT_FOUND)))
     ELSE Returned("get_top_match_results", job_description_id, top_n,
                   [i \in 1..Len(Limit(s, top_n)) |-> model_validate(s[i])]) :
        s \in OrderByRankAsc(RowsOfJob(matches, job_description_id))}

get_top_match_results_by_job_description_id(job_description_id, top_n) ==
    /\ response' \in TopNResponses(job_description_id, top_n)
    /\ UNCHANGED <<tables, matches, nextMatchId, workflows, notifications, run, crudOps>>

\* lines 158-171
GetByIdResponse(id) ==
    IF FirstById(id) = {}
    THEN Raised("get_match_result_by_id", id, 0, CrudHandler(HTTPException(HTTP_404_NOT_FOUND)))
    ELSE Returned("get_match_result_by_id", id, 0,
                  <<model_validate(CHOOSE r \in FirstById(id) : TRUE)>>)

get_match_result_by_id(id) ==
    /\ response' = GetByIdResponse(id)
    /\ UNCHANGED <<tables, matches, nextMatchId, workflows, notifications, run, crudOps>>

\* lines 181-194
ByJobResponses(job_description_id) ==
    {IF s = << >>
     THEN Raised("get_match_results_by_job", job_description_id, 0,
                 CrudHandler(HTTPException(HTTP_404_NOT_FOUND)))
     ELSE Returned("get_match_results_by_job", job_description_id, 0,
                   [i \in 1..Len(s) |-> model_validate(s[i])]) :
        s \in AnyOrder(RowsOfJob(matches, job_description_id))}

get_match_results_by_job_description_id(job_description_id) ==
    /\ response' \in ByJobResponses(job_description_id)
    /\ UNCHANGED <<tables, matches, nextMatchId, workflows, notifications, run, crudOps>>

\* lines 204-210
add_match_result(match_result_request) ==
    /\ crudOps < MaxCrudOps
    /\ matches' = matches \cup {Row(nextMatchId, match_result_request)}
    /\ nextMatchId' = nextMatchId + 1
    /\ response' = Returned("add_match_result", nextMatchId, 0,
                            <<model_validate(Row(nextMatchId, match_result_request))>>)
    /\ crudOps' = crudOps + 1
    /\ UNCHANGED <<tables, workflows, notifications, run>>

\* faulty variant of Overwrite: a partial patch that leaves the rank alone
OverwriteKeepingRank(row, data) ==
    [row EXCEPT !.job_description_id = data.job_description_id,
                !.consultant_id = data.consultant_id,
                !.similarity_score = data.similarity_score]

\* lines 229-230: setattr(result, key, value) for every field of the payload
Overwrite(row, data) ==
    [row EXCEPT !.job_description_id = data.job_description_id,
                !.consultant_id = data.consultant_id,
                !.rank = data.rank,
                !.similarity_score = data.similarity_score]

\* lines 220-236
update_match_result_by_id(id, match_result_request) ==
    /\ crudOps < MaxCrudOps
    /\ crudOps' = crudOps + 1
    /\ IF FirstById(id) = {}
       THEN /\ response' = Raised("update_match_result_by_id", id, 0,
                                  CrudHandler(HTTPException(HTTP_404_NOT_FOUND)))
            /\ UNCHANGED matches
       ELSE LET result == CHOOSE r \in FirstById(id) : TRUE
                updated == Overwrite(result, match_result_request)
            IN  /\ matches' = (matches \ {result}) \cup {updated}
                /\ response' = Returned("update_match_result_by_id", id, 0,
                                        <<model_validate(updated)>>)
    /\ UNCHANGED <<tables, nextMatchId, workflows, notifications, run>>

\* lines 246-259
delete_match_result_by_id(id) ==
    /\ crudOps < MaxCrudOps
    /\ crudOps' = crudOps + 1
    /\ IF FirstById(id) = {}
       THEN /\ response' = Raised("delete_match_result_by_id", id, 0,
                                  CrudHandler(HTTPException(HTTP_404_NOT_FOUND)))
            /\ UNCHANGED matches
       ELSE /\ matches' = matches \ FirstById(id)
            /\ response' = Returned("delete_match_result_by_id", id, 0, << >>)
    /\ UNCHANGED <<tables, nextMatchId, workflows, notifications, run>>

\* ------------------------------------------------------- specification
Init ==
    /\ jobDescriptions \in JobTables
    /\ consultantProfiles \in ProfileTables
    /\ matches = {}
    /\ nextMatchId = 1
    /\ workflows = << >>
    /\ notifications = << >>
    /\ run = [p \in Requests |-> IdleRun]
    /\ crudOps = 0
    /\ response = NoResponse

Next ==
    \E p \in Requests : get_all_match_results(p)

Spec == Init /\ [][Next]_vars

\* the CRUD calls alone, over a MatchResult table that already holds up to
\* MaxRows rows of any content
MaxRows == 3

CrudInit ==
    /\ jobDescriptions = JobIds
    /\ consultantProfiles = SparseProfiles
    /\ nextMatchId \in 1..(MaxRows + 1)
    /\ \E t \in [1..(nextMatchId - 1) -> MatchResultSchema] :
            matches = {Row(id, t[id]) : id \in DOMAIN t}
    /\ workflows = << >>
    /\ notifications = << >>
    /\ run = [p \in Requests |-> IdleRun]
    /\ crudOps = 0
    /\ response = NoResponse

CrudNext ==
    \/ \E jd_id \in JobIds : get_top_3_matches(jd_id)
    \/ \E job \in JobIds, top_n \in 0..MaxTopN :
            get_top_match_results_by_job_description_id(job, top_n)
    \/ \E id \in 1..nextMatchId : get_match_result_by_id(id)
    \/ \E job \in JobIds : get_match_results_by_job_description_id(job)
    \/ \E data \in MatchResultSchema : add_match_result(data)
    \/ \E id \in 1..nextMatchId, data \in MatchResultSchema : update_match_result_by_id(id, data)
    \/ \E id \in 1..nextMatchId : delete_match_result_by_id(id)

CrudSpec == CrudInit /\ [][CrudNext]_vars

\* ------------------------------------------------------------ properties
Succeeded(p) == run[p].pc = "done" /\ run[p].status_code = 0

\* C1: a recompute call for job J that no other call overlapped and that
\* returned normally with matches m_1..m_k leaves exactly k rows for J, row i
\* holding consultant m_i at rank i, none of them a row that was there before;
\* the rows of the other jobs are the ones the call found.
C1_RecomputeReplacesRows ==
    \A p \in Requests :
        (Succeeded(p) /\ run[p].undisturbed) =>
            LET J == run[p].job
                m == run[p].all_matches
                now == RowsOfJob(matches, J)
            IN  /\ Cardinality(now) = Len(m)
                /\ {r.rank : r \in now} = 1..Len(m)
                /\ \A i \in 1..Len(m) :
                      \E r \in now : /\ r.rank = i
                                     /\ r.consultant_id = m[i].profile
                                     /\ r.similarity_score = m[i].similarity_score
                /\ now \cap run[p].pre = {}
                /\ {r.id : r \in now} \cap {r.id : r \in run[p].pre} = {}
                /\ matches \ now = run[p].pre \ RowsOfJob(run[p].pre, J)

\* C1 witness: such a call returned two matches for a job that had rows before
C1_Witness ==
    \E p \in Requests :
        /\ Succeeded(p) /\ run[p].undisturbed
        /\ Len(run[p].all_matches) = 2
        /\ RowsOfJob(run[p].pre, run[p].job) # {}

\* C2: a NotFound raised inside the recompute call reaches the caller as a 404
C2_NotFoundReachesCaller ==
    \A p \in Requests :
        (run[p].pc = "done" /\ run[p].raised = "NotFound") =>
            run[p].status_code = HTTP_404_NOT_FOUND

\* C5: a recompute call whose job row is absent or whose pool is empty, and
\* whose matching function returned a result, ends by returning the serialized
\* match list
C5_AbsentJobOrEmptyPoolDoesNotFail ==
    \A p \in Requests :
        (/\ run[p].pc = "done"
         /\ run[p].raised # "NotFound"
         /\ (~run[p].jd \/ AvailableProfiles = {})) =>
            /\ run[p].status_code = 0
            /\ run[p].returned = SerializedMatches(run[p].all_matches)

\* C7: the WorkflowStatus record a successful recompute call created at its
\* start is COMPLETED once the call has returned
C7_OwnWorkflowCompleted ==
    \A p \in Requests :
        Succeeded(p) => workflows[run[p].created].progress = "COMPLETED"

\* C8 as stated: a call marks a WorkflowStatus record COMPLETED only when its
\* email was sent successfully
C8_CompletedOnlyAfterEmailSent ==
    \A p \in Requests : run[p].marked # 0 => run[p].email = "sent"

\* C8 amended: every COMPLETED WorkflowStatus record was marked by a call whose
\* matching function had returned a result and which had attempted the email,
\* whether the send succeeded or failed
C8_CompletedOnlyAfterMatchAndEmailAttempt ==
    \A w \in 1..Len(workflows) :
        workflows[w].progress = "COMPLETED" =>
            \E p \in Requests :
                /\ run[p].marked = w
                /\ run[p].raised # "NotFound"
                /\ run[p].email \in {"sent", "failed"}

\* C8 witness: a call whose email failed although the job row exists has
\* marked a record COMPLETED
C8_Witness ==
    \E p \in Requests :
        /\ run[p].jd /\ run[p].email = "failed"
        /\ run[p].marked # 0
        /\ workflows[run[p].marked].progress = "COMPLETED"

\* C9: when two calls for one job both delete before either inserts and both
\* return normally with at least one match, the job's rows are both result
\* sets together: two rows share a rank
C9_InterleavedRecomputeDuplicatesRanks ==
    \A p, q \in Requests :
        (/\ p # q /\ run[p].racedWith = q
         /\ Succeeded(p) /\ Succeeded(q)
         /\ run[p].all_matches # << >> /\ run[q].all_matches # << >>
         /\ \A r \in Requests \ {p, q} : run[r].pc = "idle") =>
            LET now == RowsOfJob(matches, run[p].job)
            IN  /\ Cardinality(now) = Len(run[p].all_matches) + Len(run[q].all_matches)
                /\ \E r1, r2 \in now : r1 # r2 /\ r1.rank = r2.rank

\* C9 witness: two such calls have returned
C9_Witness ==
    \E p, q \in Requests :
        /\ p # q /\ run[p].racedWith = q
        /\ Succeeded(p) /\ Succeeded(q)
        /\ run[p].all_matches # << >> /\ run[q].all_matches # << >>
        /\ \E r1, r2 \in RowsOfJob(matches, run[p].job) : r1 # r2 /\ r1.rank = r2.rank

\* C10: a recompute call that no other call overlapped and that failed because
\* the matching function returned nothing leaves the MatchResult and
\* Notification rows as it found them and adds one PROCESSING WorkflowStatus
C10_NoResultChangesOnlyWorkflow ==
    \A p \in Requests :
        (run[p].pc = "done" /\ run[p].raised = "NotFound" /\ run[p].undisturbed) =>
            /\ matches = run[p].pre
            /\ notifications = run[p].preNotifications
            /\ workflows = Append(run[p].preWorkflows,
                    [job_description_id |-> run[p].job, progress |-> "PROCESSING"])

\* C10 witness: such a call failed on a job that has rows and a notification
C10_Witness ==
    \E p \in Requests :
        /\ run[p].pc = "done" /\ run[p].raised = "NotFound" /\ run[p].undisturbed
        /\ RowsOfJob(matches, run[p].job) # {}
        /\ notifications # << >>

TopNOps == {"get_top_3_matches", "get_top_match_results"}

\* the entry each variant of get_top_n returns for a stored row
Entry(op, row) ==
    IF op = "get_top_3_matches" THEN SerializeWithProfile(row) ELSE model_validate(row)

\* C3: with no row stored for the job, either variant of get_top_n raises a 404
C3_TopNSignalsNotFoundOnNoRows ==
    (response.op \in TopNOps /\ RowsOfJob(matches, response.arg) = {}) =>
        response.status_code = HTTP_404_NOT_FOUND

\* C4: for a job with at least one row and n >= 1, get_top_n returns
\* min(n, rows of the job) entries, each the entry of a distinct row of that
\* job, in non-decreasing rank order, and no row left out has a smaller rank
\* than a returned one
C4_TopNReturnsBestRanked ==
    LET rows == RowsOfJob(matches, response.arg)
        body == response.body
    IN  (response.op \in TopNOps /\ rows # {} /\ response.top_n >= 1) =>
            /\ response.status_code = 0
            /\ Len(body) = IF response.top_n < Cardinality(rows)
                           THEN response.top_n ELSE Cardinality(rows)
            /\ \A i, j \in 1..Len(body) : i <= j => body[i].rank <= body[j].rank
            /\ response.op = "get_top_match_results" =>
                    \A i \in 1..Len(body) : body[i].job_description_id = response.arg
            /\ \E f \in [1..Len(body) -> rows] :
                    /\ \A i, j \in 1..Len(body) : i # j => f[i] # f[j]
                    /\ \A i \in 1..Len(body) : body[i] = Entry(response.op, f[i])
                    /\ \A r \in rows \ {f[i] : i \in 1..Len(body)} :
                          \A i \in 1..Len(body) : r.rank >= body[i].rank

\* C4 witness: the top-3 variant answered for a job with four rows and left
\* out a row ranked worse than one it returned
C4_Witness ==
    /\ response.op = "get_top_3_matches"
    /\ response.status_code = 0
    /\ Cardinality(RowsOfJob(matches, response.arg)) = 4
    /\ Len(response.body) = 3
    /\ \E r \in RowsOfJob(matches, response.arg) : r.rank > response.body[1].rank
    /\ response.body[3].rank > response.body[1].rank

\* C6: update(id, data) on an existing id makes get_by_id(id) return data in
\* every field; on a missing id it raises a 404 and leaves the table as it was
C6_UpdateThenGetReturnsPayload ==
    [][response'.op = "update_match_result_by_id" =>
        \A id \in 1..nextMatchId, data \in MatchResultSchema :
            update_match_result_by_id(id, data) =>
                IF FirstById(id) # {}
                THEN GetByIdResponse(id)' = Returned("get_match_result_by_id", id, 0, <<data>>)
                ELSE /\ response'.status_code = HTTP_404_NOT_FOUND
                     /\ matches' = matches]_vars

\* C6 witness: an update succeeded and get_by_id on the same id gives what
\* the update returned
C6_Witness ==
    /\ response.op = "update_match_result_by_id"
    /\ response.status_code = 0
    /\ GetByIdResponse(response.arg).status_code = 0
    /\ GetByIdResponse(response.arg).body = response.body
====
